---- MODULE Spec2Model ----
(***************************************************************************)
(* Model of convert_terrorist_csv_for_upload.py: a one-pass conversion of  *)
(* a CSV of listed entities into the column layout of the data management  *)
(* service.  Strings are sequences of one-character strings so that        *)
(* str.strip() and re.match() are computed character by character.         *)
(***************************************************************************)
EXTENDS Naturals, Sequences, FiniteSets

VARIABLES input, exists, pc, run, outfile, converted_rows, fixed_dates,
          idx, origin, success, ioerror, preview, pidx, status, first

vars == <<input, exists, pc, run, outfile, converted_rows, fixed_dates,
          idx, origin, success, ioerror, preview, pidx, status, first>>

(***************************************************************************)
(* Bounds of the model.                                                    *)
(***************************************************************************)
\* longest input (in rows) built from RowPool
MaxRows == 3
\* longest run of blanks put before and after a date value
MaxPad == 1
\* how many times the script is invoked on the same input
MaxRuns == 2

(***************************************************************************)
(* Python values.                                                          *)
(***************************************************************************)
\* None is a value outside the strings: no string has a multi-character
\* element.
None == <<"None">>

\* bool(v) for v a str or None
Truthy(v) == v # None /\ v # <<>>

\* the characters str.strip() removes (the ones the inputs below use)
Whitespace == {" ", "\t", "\n", "\r"}

RECURSIVE LStrip(_)
LStrip(s) == IF s # <<>> /\ Head(s) \in Whitespace THEN LStrip(Tail(s)) ELSE s

RECURSIVE RStrip(_)
RStrip(s) ==
    IF s # <<>> /\ s[Len(s)] \in Whitespace
    THEN RStrip(SubSeq(s, 1, Len(s) - 1))
    ELSE s

\* str.strip()
Strip(s) == RStrip(LStrip(s))

\* \d (ASCII digits)
Digits == {"0", "1", "2", "3", "4", "5", "6", "7", "8", "9"}

\* re.match(r'^\d{4}-\d{2}-\d{2}$', s): ten characters of the date shape;
\* Python's $ also matches just before a final newline.
MatchDate(s) ==
    /\ \/ Len(s) = 10
       \/ Len(s) = 11 /\ s[11] = "\n"
    /\ \A i \in {1, 2, 3, 4, 6, 7, 9, 10} : s[i] \in Digits
    /\ s[5] = "-"
    /\ s[8] = "-"

Str_NotYetReviewed ==
    <<"N", "o", "t", " ", "y", "e", "t", " ",
      "r", "e", "v", "i", "e", "w", "e", "d">>

Str_TerroristOrganization ==
    <<"T", "e", "r", "r", "o", "r", "i", "s", "t", " ",
      "O", "r", "g", "a", "n", "i", "z", "a", "t", "i", "o", "n">>

(***************************************************************************)
(* The row conversion.                                                     *)
(***************************************************************************)
\* the keys whose lookup raises KeyError when absent
SourceKeys ==
    {"name", "entity_id", "description", "aliases",
     "published_date", "updated_date", "data_source_url"}

fieldnames ==
    <<"organization_name", "external_id", "schema_type", "description",
      "aliases", "published_date", "updated_date", "data_source_url">>

HasAllKeys(row) == SourceKeys \subseteq DOMAIN row

\* a variant that lets an input column schema_type through
ConvertedRow_KeepSchema(row) ==
    [organization_name |-> row.name,
     external_id       |-> row.entity_id,
     schema_type       |-> IF "schema_type" \in DOMAIN row
                           THEN row.schema_type
                           ELSE Str_TerroristOrganization,
     description       |-> row.description,
     aliases           |-> row.aliases,
     published_date    |-> row.published_date,
     updated_date      |-> row.updated_date,
     data_source_url   |-> row.data_source_url]

\* a variant that trims the name and swaps description and aliases
ConvertedRow_Mixed(row) ==
    [organization_name |-> IF row.name = None THEN None ELSE Strip(row.name),
     external_id       |-> row.entity_id,
     schema_type       |-> Str_TerroristOrganization,
     description       |-> row.aliases,
     aliases           |-> row.description,
     published_date    |-> row.published_date,
     updated_date      |-> row.updated_date,
     data_source_url   |-> row.data_source_url]

\* the dict literal converted_row
ConvertedRow(row) ==
    [organization_name |-> row.name,
     external_id       |-> row.entity_id,
     schema_type       |-> Str_TerroristOrganization,
     description       |-> row.description,
     aliases           |-> row.aliases,
     published_date    |-> row.published_date,
     updated_date      |-> row.updated_date,
     data_source_url   |-> row.data_source_url]

\* a variant that forgets the sentinel step
SentinelToNone_Skip(v) == v

\* "Not yet reviewed", None, '' and blank strings become None
SentinelToNone(v) ==
    IF v = Str_NotYetReviewed \/ ~Truthy(v) \/ ~Truthy(Strip(v))
    THEN None
    ELSE v

\* a variant that matches the value as it stands, untrimmed
DateInvalid_NoStrip(v) ==
    /\ Truthy(v)
    /\ Truthy(Strip(v))
    /\ ~MatchDate(v)

\* the two nested conditions of the validation loop
DateInvalid(v) ==
    /\ Truthy(v)
    /\ Truthy(Strip(v))
    /\ ~MatchDate(Strip(v))

\* the value a date field holds after the sentinel step and the validation
FixedDate(v) ==
    IF DateInvalid(SentinelToNone(v)) THEN None ELSE SentinelToNone(v)

\* converted_row as handed to writer.writerow
FixedRow(row) ==
    [ConvertedRow(row) EXCEPT
        !.published_date = FixedDate(@),
        !.updated_date = FixedDate(@)]

\* how often fixed_dates += 1 runs for one row
FixCount(row) ==
    (IF DateInvalid(SentinelToNone(ConvertedRow(row).published_date))
     THEN 1 ELSE 0)
    + (IF DateInvalid(SentinelToNone(ConvertedRow(row).updated_date))
       THEN 1 ELSE 0)

\* csv.DictWriter.writerow: None is written as the empty field
writerow(d) == [k \in DOMAIN d |-> IF d[k] = None THEN <<>> ELSE d[k]]

\* i >= 2 ends the preview loop
PreviewLimit == 2

\* the fields a preview entry prints
PreviewOf(r) ==
    [organization_name |-> r.organization_name,
     external_id       |-> r.external_id,
     schema_type       |-> r.schema_type,
     published_date    |-> r.published_date,
     updated_date      |-> r.updated_date]

\* a variant that reports success whatever happened
ExitStatus_AlwaysZero(ok) == 0

\* return 0 on success, 1 otherwise
ExitStatus(ok) == IF ok THEN 0 ELSE 1

(***************************************************************************)
(* The inputs: the rows csv.DictReader yields, as mappings from column     *)
(* name to value.                                                          *)
(***************************************************************************)
Str_GroupA == <<"G", "r", "o", "u", "p", " ", "A">>
Str_PaddedB == <<" ", "B", " ">>
Str_T001 == <<"T", "0", "0", "1">>
Str_T002 == <<"T", "0", "0", "2">>
Str_Desc == <<"d", "e", "s", "c">>
Str_Alias1 == <<"A", "l", "i", "a", "s", "1">>
Str_Url == <<"h", "t", "t", "p", ":", "/", "/", "x">>
Str_Other == <<"O", "t", "h", "e", "r">>

Date_Good == <<"2", "0", "2", "0", "-", "0", "5", "-", "0", "1">>
Date_OutOfRange == <<"2", "0", "2", "4", "-", "1", "3", "-", "4", "0">>
Date_Short == <<"2", "0", "2", "4", "-", "1", "-", "1">>
Date_Slashes == <<"2", "0", "2", "4", "/", "0", "1", "/", "0", "1">>
Date_Long == <<"2", "0", "2", "0", "-", "0", "5", "-", "0", "1", "1">>

DateCores ==
    {<<>>, <<"\t">>, Str_NotYetReviewed, Date_Good, Date_OutOfRange,
     Date_Short, Date_Slashes, Date_Long}

Pads == {[i \in 1..k |-> " "] : k \in 0..MaxPad}

\* every core with up to MaxPad blanks on either side, and the None a short
\* line yields
DateValues == {l \o c \o r : l \in Pads, c \in DateCores, r \in Pads} \cup {None}

Row(n, id, pd, ud) ==
    [name |-> n, entity_id |-> id, description |-> Str_Desc,
     aliases |-> Str_Alias1, published_date |-> pd, updated_date |-> ud,
     data_source_url |-> Str_Url]

Without(row, k) == [c \in DOMAIN row \ {k} |-> row[c]]

With(row, k, v) == [c \in DOMAIN row \cup {k} |-> IF c = k THEN v ELSE row[c]]

\* rows for the longer inputs: the documented scenario row, a padded and a
\* short date, rows lacking a key, a row with a schema_type column, a short
\* line
RowPool ==
    {Row(Str_GroupA, Str_T001, Str_NotYetReviewed, Date_Good),
     Row(Str_PaddedB, Str_T002, <<" ">> \o Date_Good \o <<" ">>, Date_Short),
     Without(Row(Str_GroupA, Str_T001, Date_Good, Date_Good), "entity_id"),
     Without(Row(Str_PaddedB, Str_T002, Date_Short, Date_Good), "published_date"),
     With(Row(Str_PaddedB, Str_T001, Date_Slashes, Date_Long),
          "schema_type", Str_Other),
     [Row(Str_GroupA, Str_T002, <<>>, None) EXCEPT
        !.aliases = <<>>, !.data_source_url = None]}

DateRows == {Row(Str_GroupA, Str_T001, pd, ud) : pd, ud \in DateValues}

Inputs ==
    UNION {[1..k -> RowPool] : k \in 0..MaxRows}
    \cup {<<r>> : r \in DateRows}

NoFile == [header |-> <<>>, rows |-> <<>>]

NoRun ==
    [valid |-> FALSE, outfile |-> NoFile, converted_rows |-> 0, fixed_dates |-> 0]

(***************************************************************************)
(* The state machine.                                                      *)
(***************************************************************************)
Init ==
    /\ input \in Inputs
    /\ exists \in BOOLEAN
    /\ pc = "start"
    /\ run = 1
    /\ outfile = NoFile
    /\ converted_rows = 0
    /\ fixed_dates = 0
    /\ idx = 0
    /\ origin = <<>>
    /\ success = FALSE
    /\ ioerror = FALSE
    /\ preview = <<>>
    /\ pidx = 0
    /\ status = 0
    /\ first = NoRun

\* a variant that opens the output for appending and keeps the counters
Begin_CarryOver ==
    /\ pc = "start"
    /\ exists
    /\ outfile' = [outfile EXCEPT !.header = fieldnames]
    /\ idx' = 0
    /\ origin' = <<>>
    /\ ioerror' = FALSE
    /\ preview' = <<>>
    /\ pidx' = 0
    /\ pc' = "loop"
    /\ UNCHANGED <<input, exists, run, success, status, first,
                   converted_rows, fixed_dates>>

\* the input exists: open both files, write the header, zero the counters
Begin ==
    /\ pc = "start"
    /\ exists
    /\ outfile' = [header |-> fieldnames, rows |-> <<>>]
    /\ converted_rows' = 0
    /\ fixed_dates' = 0
    /\ idx' = 0
    /\ origin' = <<>>
    /\ ioerror' = FALSE
    /\ preview' = <<>>
    /\ pidx' = 0
    /\ pc' = "loop"
    /\ UNCHANGED <<input, exists, run, success, status, first>>

\* the input does not exist: return False before anything is opened
FileMissing ==
    /\ pc = "start"
    /\ ~exists
    /\ success' = FALSE
    /\ ioerror' = FALSE
    /\ pc' = "returned"
    /\ UNCHANGED <<input, exists, run, outfile, converted_rows, fixed_dates,
                   idx, origin, preview, pidx, status, first>>

\* one iteration of the row loop on a row holding every key
ConvertRow ==
    /\ pc = "loop"
    /\ idx < Len(input)
    /\ HasAllKeys(input[idx + 1])
    /\ fixed_dates' = fixed_dates + FixCount(input[idx + 1])
    /\ outfile' = [outfile EXCEPT
                     !.rows = Append(@, writerow(FixedRow(input[idx + 1])))]
    /\ converted_rows' = converted_rows + 1
    /\ origin' = Append(origin, idx + 1)
    /\ idx' = idx + 1
    /\ UNCHANGED <<input, exists, pc, run, success, ioerror, preview, pidx,
                   status, first>>

\* a variant in which the KeyError ends the pass
SkipRow_Abort ==
    /\ pc = "loop"
    /\ idx < Len(input)
    /\ ~HasAllKeys(input[idx + 1])
    /\ idx' = idx + 1
    /\ success' = FALSE
    /\ pc' = "returned"
    /\ UNCHANGED <<input, exists, run, outfile, converted_rows, fixed_dates,
                   origin, ioerror, preview, pidx, status, first>>

\* one iteration on a row lacking a key: the dict literal raises KeyError,
\* the handler prints a warning and continues
SkipRow ==
    /\ pc = "loop"
    /\ idx < Len(input)
    /\ ~HasAllKeys(input[idx + 1])
    /\ idx' = idx + 1
    /\ UNCHANGED <<input, exists, pc, run, outfile, converted_rows,
                   fixed_dates, origin, success, ioerror, preview, pidx,
                   status, first>>

\* the reader is exhausted: both files are closed, the counts are printed
EndLoop ==
    /\ pc = "loop"
    /\ idx = Len(input)
    /\ pc' = "preview"
    /\ pidx' = 0
    /\ UNCHANGED <<input, exists, run, outfile, converted_rows, fixed_dates,
                   idx, origin, success, ioerror, preview, status, first>>

\* one iteration of the preview loop over the rows read back
PreviewRow ==
    /\ pc = "preview"
    /\ pidx < Len(outfile.rows)
    /\ ~(pidx >= PreviewLimit)
    /\ preview' = Append(preview, PreviewOf(outfile.rows[pidx + 1]))
    /\ pidx' = pidx + 1
    /\ UNCHANGED <<input, exists, pc, run, outfile, converted_rows,
                   fixed_dates, idx, origin, success, ioerror, status, first>>

\* the preview loop ends (break, or no row left): return True
PreviewEnd ==
    /\ pc = "preview"
    /\ \/ pidx >= Len(outfile.rows)
       \/ pidx >= PreviewLimit
    /\ success' = TRUE
    /\ pc' = "returned"
    /\ UNCHANGED <<input, exists, run, outfile, converted_rows, fixed_dates,
                   idx, origin, ioerror, preview, pidx, status, first>>

\* reading or opening a stream raises outside the row handler: the outer
\* handler returns False
StreamError ==
    /\ pc \in {"loop", "preview"}
    /\ ioerror' = TRUE
    /\ success' = FALSE
    /\ pc' = "returned"
    /\ UNCHANGED <<input, exists, run, outfile, converted_rows, fixed_dates,
                   idx, origin, preview, pidx, status, first>>

\* main turns the result into the exit status
Main ==
    /\ pc = "returned"
    /\ status' = ExitStatus(success)
    /\ pc' = "exited"
    /\ UNCHANGED <<input, exists, run, outfile, converted_rows, fixed_dates,
                   idx, origin, success, ioerror, preview, pidx, first>>

\* the script is run again on the same input; what the run before left is
\* remembered for comparison
Invoke ==
    /\ pc = "exited"
    /\ run < MaxRuns
    /\ first' = [valid |-> success, outfile |-> outfile,
                 converted_rows |-> converted_rows,
                 fixed_dates |-> fixed_dates]
    /\ run' = run + 1
    /\ pc' = "start"
    /\ UNCHANGED <<input, exists, outfile, converted_rows, fixed_dates, idx,
                   origin, success, ioerror, preview, pidx, status>>

Next ==
    \/ Begin
    \/ FileMissing
    \/ ConvertRow
    \/ SkipRow
    \/ EndLoop
    \/ PreviewRow
    \/ PreviewEnd
    \/ StreamError
    \/ Main
    \/ Invoke

Spec == Init /\ [][Next]_vars

(***************************************************************************)
(* Vocabulary of the properties.                                           *)
(***************************************************************************)
DateFields == {"published_date", "updated_date"}

Written == 1..Len(outfile.rows)

\* the input row the k-th written row was made from
SourceOf(k) == input[origin[k]]

\* matches ^\d{4}-\d{2}-\d{2}$ with nothing before or after
ExactDate(s) ==
    /\ Len(s) = 10
    /\ \A i \in {1, 2, 3, 4, 6, 7, 9, 10} : s[i] \in Digits
    /\ s[5] = "-"
    /\ s[8] = "-"

IsSentinel(v) == v = Str_NotYetReviewed

\* the empty string or whitespace only
IsBlank(v) == v # None /\ \A i \in 1..Len(v) : v[i] \in Whitespace

\* a value the format check is there to null: not the sentinel, not blank,
\* not of the date shape once trimmed
Malformed(v) ==
    /\ v # None
    /\ ~IsSentinel(v)
    /\ ~IsBlank(v)
    /\ ~ExactDate(Strip(v))

MalformedCount(row) == Cardinality({f \in DateFields : Malformed(row[f])})

RECURSIVE SumMalformed(_)
SumMalformed(k) ==
    IF k = 0 THEN 0 ELSE SumMalformed(k - 1) + MalformedCount(SourceOf(k))

\* the indices of the rows read so far that hold every required key
GoodUpTo(n) == {j \in 1..n : HasAllKeys(input[j])}

\* a value as a CSV field holds it
AsField(v) == IF v = None THEN <<>> ELSE v

Min(a, b) == IF a < b THEN a ELSE b

Finished == pc \in {"returned", "exited"}

(***************************************************************************)
(* The properties.                                                         *)
(***************************************************************************)
\* C1: in every row written, published_date and updated_date are each
\* empty or exactly of the shape dddd-dd-dd.
C1_DatesEmptyOrExact ==
    \A k \in Written : \A f \in DateFields :
        outfile.rows[k][f] = <<>> \/ ExactDate(outfile.rows[k][f])

\* C2: a date value that is not the sentinel, not blank, and of the date
\* shape once trimmed is written as its trimmed form.
C2_WritesTrimmedValue ==
    \A k \in Written : \A f \in DateFields :
        LET v == SourceOf(k)[f] IN
        (v # None /\ ~IsSentinel(v) /\ ~IsBlank(v) /\ ExactDate(Strip(v)))
            => outfile.rows[k][f] = Strip(v)

\* C3: a date value equal to the sentinel, empty, or whitespace only is
\* written as the empty field, whatever the other date field holds.
C3_SentinelAndBlankBecomeNull ==
    \A k \in Written : \A f \in DateFields :
        LET v == SourceOf(k)[f] IN
        (IsSentinel(v) \/ IsBlank(v)) => outfile.rows[k][f] = <<>>

\* C3 witness: a written row whose published_date was blank and came out
\* empty while its updated_date, a good date, was kept.
C3_Witness ==
    \E k \in Written :
        /\ SourceOf(k).published_date = <<" ">>
        /\ SourceOf(k).updated_date = Date_Good
        /\ outfile.rows[k].published_date = <<>>
        /\ outfile.rows[k].updated_date = Date_Good

\* C4: fixed_dates is the number of date fields, over the written rows,
\* whose value was malformed (not the sentinel, not blank, not of the date
\* shape once trimmed), and each such field is written empty.
C4_FixedDatesCountsMalformed ==
    /\ fixed_dates = SumMalformed(Len(origin))
    /\ \A k \in Written : \A f \in DateFields :
        Malformed(SourceOf(k)[f]) => outfile.rows[k][f] = <<>>

\* C4 witness: a completed pass over several rows, one of them with both
\* dates malformed and one with a sentinel and a good date, counting 3.
C4_Witness ==
    /\ pc = "exited"
    /\ success
    /\ fixed_dates = 3
    /\ \E k \in Written : MalformedCount(SourceOf(k)) = 2
    /\ \E k \in Written : MalformedCount(SourceOf(k)) = 0

\* C5: rows lacking a required key are dropped and nothing else is: the
\* rows written and converted_rows both number the rows read so far that
\* hold every key, and a pass with no stream failure reads every row and
\* reports success.
C5_BadRowsDroppedPassGoesOn ==
    /\ converted_rows = Cardinality(GoodUpTo(idx))
    /\ Len(outfile.rows) = Cardinality(GoodUpTo(idx))
    /\ pc = "preview" => idx = Len(input)
    /\ (Finished /\ exists /\ ~ioerror) => (success /\ idx = Len(input))

\* C5 witness: a pass that reported success over three rows of which the
\* first lacked a key and the later two were written.
C5_Witness ==
    /\ pc = "exited"
    /\ success
    /\ Len(input) = 3
    /\ ~HasAllKeys(input[1])
    /\ origin = <<2, 3>>
    /\ converted_rows = 2

\* C6: every row written has schema_type "Terrorist Organization".
C6_SchemaTypeConstant ==
    \A k \in Written : outfile.rows[k].schema_type = Str_TerroristOrganization

\* C6 witness: a written row made from an input row that carries a
\* schema_type column with another value.
C6_Witness ==
    \E k \in Written :
        /\ "schema_type" \in DOMAIN SourceOf(k)
        /\ SourceOf(k).schema_type # Str_TerroristOrganization

\* C7: the rows written are the rows holding every key, in input order,
\* each carrying its own row's name, entity_id, description, aliases and
\* data_source_url unchanged.
C7_RowsOneToOneInOrder ==
    /\ Len(origin) = Len(outfile.rows)
    /\ {origin[k] : k \in Written} = GoodUpTo(idx)
    /\ \A k \in Written : \A j \in Written : k < j => origin[k] < origin[j]
    /\ \A k \in Written :
        /\ outfile.rows[k].organization_name = AsField(SourceOf(k).name)
        /\ outfile.rows[k].external_id = AsField(SourceOf(k).entity_id)
        /\ outfile.rows[k].description = AsField(SourceOf(k).description)
        /\ outfile.rows[k].aliases = AsField(SourceOf(k).aliases)
        /\ outfile.rows[k].data_source_url = AsField(SourceOf(k).data_source_url)

\* C7 witness: two rows written around a skipped one, the second with a
\* name that has blanks on both sides.
C7_Witness ==
    /\ pc = "exited"
    /\ origin = <<1, 3>>
    /\ outfile.rows[1].organization_name = Str_GroupA
    /\ outfile.rows[2].organization_name = Str_PaddedB
    /\ outfile.rows[1].external_id # outfile.rows[2].external_id

\* C8: the exit status is 1 exactly when the input file is missing or a
\* stream failure ended the pass, and 0 exactly when the pass ran to its
\* end; skipped rows do not change it.
C8_ExitStatus ==
    pc = "exited" =>
        /\ status \in {0, 1}
        /\ status = 1 <=> (~exists \/ ioerror)
        /\ status = 0 <=> (exists /\ success /\ idx = Len(input))

\* C8 witness: a pass in which every row was skipped exits with 0.
C8_Witness ==
    /\ pc = "exited"
    /\ status = 0
    /\ Len(input) = 2
    /\ converted_rows = 0

\* C9: a completed pass leaves the same output and the same counts as the
\* completed pass before it over the same input.
C9_SameInputSameResult ==
    (Finished /\ success /\ first.valid) =>
        /\ outfile = first.outfile
        /\ converted_rows = first.converted_rows
        /\ fixed_dates = first.fixed_dates

\* C9 witness: a second completed pass that wrote rows and nulled dates.
C9_Witness ==
    /\ pc = "exited"
    /\ run = 2
    /\ success
    /\ first.valid
    /\ converted_rows = 2
    /\ fixed_dates > 0

\* C10: after a completed pass the preview holds the first three rows of
\* the output, in order (all of them when there are fewer), and no more.
C10_PreviewFirstThree ==
    (Finished /\ success) =>
        preview = [i \in 1..Min(3, Len(outfile.rows)) |->
                      PreviewOf(outfile.rows[i])]

====
